---- MODULE Spec2Model ----
(***************************************************************************)
(* Conference API (conference.py, models.py): the datastore entities       *)
(* (Profile, Conference, Session), the two memcache entries, the task      *)
(* queue, and the endpoint handlers that read and write them.              *)
(*                                                                         *)
(* Datastore transactions (@ndb.transactional) are modelled as the store   *)
(* runs them: the function reads a snapshot taken when the transaction     *)
(* begins, an exception rolls everything back, and the commit is refused   *)
(* and the function run again when an entity group it read was written     *)
(* after the snapshot.  A conference is a child of its organizer's         *)
(* Profile, so its entity group is that profile's.                         *)
(***************************************************************************)
EXTENDS Integers, Sequences, FiniteSets, TLC

(* ------------------------------ bounds -------------------------------- *)

\* Largest maxAttendees a createConference form carries.
MaxSeats == 2
\* Number of sessions the store holds.
MaxSessions == 3

(* ------------------------- program constants -------------------------- *)

\* Conference.seatsAvailable <= 5 in _cacheAnnouncement
NEARLY_SOLD_OUT == 5

MEMCACHE_ANNOUNCEMENTS_KEY == "RECENT_ANNOUNCEMENTS"
MEMCACHE_FEATURED_SPEAKER_KEY == "FEATURED_SPEAKER"
ANNOUNCEMENT_TPL == "Last chance to attend! The following conferences are nearly sold out: %s"
FEATURED_TPL == "%s is the featured speaker for the following sessions: %s"

DEFAULTS ==
    [city |-> "Default City", maxAttendees |-> 0, seatsAvailable |-> 0,
     topics |-> << "Default", "Topic" >>]

(* ------------------------------ values -------------------------------- *)

\* Python's None / an absent message field, and a present value.
None == << >>
Some(v) == << v >>

\* User ids of authenticated callers; Anonymous is a call for which
\* endpoints.get_current_user() returns None.
Users == {"u1", "u2", "u3"}
Anonymous == "anonymous"
\* A second client (another device) of user u1: getUserId gives the same id.
SecondClient == "u1-second-client"
Callers == Users \cup {Anonymous, SecondClient}
UserOf(caller) == IF caller = SecondClient THEN "u1" ELSE caller

\* Websafe conference keys a request can carry (allocated or not).
ConfKeys == {1, 2}

Contains(seq, x) == \E i \in 1 .. Len(seq) : seq[i] = x

\* Mutant: list.remove leaves the list as it is.
Remove_Nothing(seq, x) == seq

\* list.remove(x): drops the first occurrence of x.
RECURSIVE Remove(_, _)
Remove(seq, x) ==
    IF seq = << >> THEN << >>
    ELSE IF Head(seq) = x THEN Tail(seq)
    ELSE << Head(seq) >> \o Remove(Tail(seq), x)

\* protorpc form of a conference: every field absent (a repeated field that
\* is absent reads as the empty list).
EmptyConferenceForm ==
    [name |-> None, organizerUserId |-> None, city |-> None, topics |-> << >>,
     maxAttendees |-> None, seatsAvailable |-> None, startDate |-> None,
     endDate |-> None, month |-> None]

\* A calendar date is the number MMDD of one year; .month is MMDD \div 100.
MonthOf(d) == d \div 100

(* ----------------------------- variables ------------------------------ *)

VARIABLES
    profiles,      \* user id -> None | Some(Profile entity)
    conferences,   \* conference key -> None | Some(Conference entity)
    sessions,      \* the Session entities, in key order
    speakerEntities, \* the Speaker entities
    memcache,      \* memcache key -> None | Some(message)
    taskqueue,     \* tasks added and not yet run
    tx,            \* caller -> the datastore transaction the caller's call is in
    resp,          \* the response of the call that completed last
    updated,       \* keys of the conferences an updateConference has written
    outcome,       \* caller -> result of the caller's registration call (race)
    pending        \* createSession calls and featured-speaker runs part-way

vars == << profiles, conferences, sessions, speakerEntities, memcache,
           taskqueue, tx, resp, updated, outcome, pending >>

\* Nothing is part-way.  put: caller -> the conference key under which the
\* caller's createSession has put its Session, taskqueue.add still to come.
\* computed: the featured-speaker runs that have computed their message and
\* not yet written the cache.  returned: the message returned by the run that
\* wrote the cache last.
NoPending ==
    [put |-> [c \in Callers |-> None], computed |-> << >>,
     returned |-> [tpl |-> "", args |-> << >>]]

NoTx == [op |-> "none", wsck |-> 0, reg |-> FALSE, form |-> EmptyConferenceForm,
         prof |-> None, conf |-> None, stale |-> FALSE]

NoResp == [op |-> "", caller |-> "", wsck |-> 0, result |-> "", data |-> << >>]

Response(op, caller, wsck, result, data) ==
    [op |-> op, caller |-> caller, wsck |-> wsck, result |-> result, data |-> data]

Exists(wsck) == conferences[wsck] # None
Conf(wsck) == conferences[wsck][1]

\* Profile.conferenceKeysToAttend of a stored profile ([] when none is stored).
Attending(u) ==
    IF profiles[u] = None THEN << >> ELSE profiles[u][1].conferenceKeysToAttend

(* ------------------------- entity groups ------------------------------ *)

\* A write to an entity group invalidates every open transaction that read it.
\* The groups a transaction read: the caller's Profile and, when the
\* conference exists, the Profile the conference is a child of.
GroupsRead(t, caller) ==
    (IF UserOf(caller) \in Users THEN {UserOf(caller)} ELSE {})
        \cup (IF t.conf = None THEN {} ELSE {t.conf[1].parent})

\* Mutant: a write does not invalidate the transactions that read the group.
Invalidate_Nothing(txs, writer, groups) == txs

Invalidate(txs, writer, groups) ==
    [c \in Callers |->
        IF c # writer /\ txs[c].op # "none" /\ GroupsRead(txs[c], c) \cap groups # {}
        THEN [txs[c] EXCEPT !.stale = TRUE]
        ELSE txs[c]]

(* --------------------------- Profile ---------------------------------- *)

NewProfile(u) ==
    [displayName |-> u, teeShirtSize |-> "NOT_SPECIFIED",
     conferenceKeysToAttend |-> << >>, session_wishlist |-> << >>]

\* authentication_required around _getProfileFromUser: Unauthorized without a
\* user; otherwise the stored Profile, or a new one that is put.
GetProfileFromUser(user, profRead) ==
    IF user = Anonymous
    THEN [raise |-> "Unauthorized", prof |-> NewProfile(user)]
    ELSE IF profRead = None
         THEN [raise |-> "", prof |-> NewProfile(user)]
         ELSE [raise |-> "", prof |-> profRead[1]]

(* --------------------------- Conference ------------------------------- *)

\* _createConferenceObject up to the put: the exception it raises, or the
\* Conference entity it stores under key (parent = the caller's Profile key).
CreateConferenceObject(user, form) ==
    IF user = Anonymous THEN [raise |-> "Unauthorized", conf |-> None]
    ELSE IF form.name = None \/ form.name = Some("")
    THEN [raise |-> "BadRequest", conf |-> None]
    ELSE
        LET maxAttendees == IF form.maxAttendees = None
                            THEN DEFAULTS.maxAttendees ELSE form.maxAttendees[1]
            seatsGiven == IF form.seatsAvailable = None
                          THEN DEFAULTS.seatsAvailable ELSE form.seatsAvailable[1]
        IN  [raise |-> "",
             conf |-> Some([parent |-> user,
                            organizerUserId |-> user,
                            name |-> form.name[1],
                            city |-> IF form.city = None
                                     THEN DEFAULTS.city ELSE form.city[1],
                            topics |-> IF form.topics = << >>
                                       THEN DEFAULTS.topics ELSE form.topics,
                            maxAttendees |-> maxAttendees,
                            seatsAvailable |-> IF maxAttendees > 0
                                               THEN maxAttendees ELSE seatsGiven,
                            startDate |-> form.startDate,
                            endDate |-> form.endDate,
                            month |-> IF form.startDate = None
                                      THEN 0 ELSE MonthOf(form.startDate[1])])]

\* Conference.allocate_ids: the next unused id.
AllocatedConfs == {k \in ConfKeys : Exists(k)}
NextConfKey == Cardinality(AllocatedConfs) + 1

\* taskqueue.add(params=..., url=...)
EmailTask(user) ==
    [url |-> "/tasks/send_confirmation_email", email |-> user, websafeConferenceKey |-> 0]
FeaturedTask(wsck) ==
    [url |-> "/tasks/set_featured_speaker", email |-> "", websafeConferenceKey |-> wsck]

\* createConference: put (not in a transaction), then taskqueue.add.
CreateConference(caller, form) ==
    /\ tx[caller].op = "none"
    /\ LET r == CreateConferenceObject(caller, form) IN
       IF r.raise # ""
       THEN /\ resp' = Response("createConference", caller, 0, r.raise, << >>)
            /\ UNCHANGED << profiles, conferences, sessions, speakerEntities,
                            memcache, taskqueue, tx, updated, outcome, pending >>
       ELSE /\ NextConfKey \in ConfKeys
            /\ conferences' = [conferences EXCEPT ![NextConfKey] = r.conf]
            /\ taskqueue' = Append(taskqueue, EmailTask(caller))
            /\ tx' = Invalidate(tx, caller, {caller})
            /\ resp' = Response("createConference", caller, NextConfKey, "ok", << >>)
            /\ UNCHANGED << profiles, sessions, speakerEntities, memcache,
                            updated, outcome, pending >>

\* The copy loop of _updateConferenceObject: every field of the form that is
\* not None is written to the entity; startDate also sets month.  The order of
\* request.all_fields() is not fixed, so a form carrying both startDate and
\* month leaves either as the month (monthLast: month is copied after startDate).
CopyFields(conf, form, monthLast) ==
    LET c1 == IF form.name = None THEN conf ELSE [conf EXCEPT !.name = form.name[1]]
        c2 == IF form.organizerUserId = None THEN c1
              ELSE [c1 EXCEPT !.organizerUserId = form.organizerUserId[1]]
        c3 == IF form.maxAttendees = None THEN c2
              ELSE [c2 EXCEPT !.maxAttendees = form.maxAttendees[1]]
        c4 == IF form.seatsAvailable = None THEN c3
              ELSE [c3 EXCEPT !.seatsAvailable = form.seatsAvailable[1]]
        c4a == IF form.city = None THEN c4 ELSE [c4 EXCEPT !.city = form.city[1]]
        c4b == IF form.topics = << >> THEN c4a ELSE [c4a EXCEPT !.topics = form.topics]
        c5 == IF form.endDate = None THEN c4b ELSE [c4b EXCEPT !.endDate = form.endDate]
        c6 == IF form.startDate = None THEN c5
              ELSE [c5 EXCEPT !.startDate = form.startDate]
        fromStart == IF form.startDate = None THEN c6.month
                     ELSE MonthOf(form.startDate[1])
    IN  [c6 EXCEPT !.month =
            IF form.month = None THEN fromStart
            ELSE IF form.startDate = None \/ monthLast THEN form.month[1]
            ELSE fromStart]

\* Mutant: the owner check lets every user through.
NotOwner_Never(user_id, conf) == FALSE

\* user_id != conf.organizerUserId
NotOwner(user_id, conf) == user_id # conf.organizerUserId

\* _updateConferenceObject, run on what the transaction read.  The transaction
\* is not cross-group: the closing read of the caller's Profile raises when
\* the conference is not a child of that Profile, and getattr(prof,
\* 'displayName') raises when the caller has no stored Profile.
UpdateConferenceObject(user, profRead, confRead, form, monthLast) ==
    IF user = Anonymous THEN [raise |-> "Unauthorized", conf |-> None]
    ELSE IF confRead = None THEN [raise |-> "NotFound", conf |-> None]
    ELSE IF NotOwner(user, confRead[1]) THEN [raise |-> "Forbidden", conf |-> None]
    ELSE IF user # confRead[1].parent THEN [raise |-> "BadRequestError", conf |-> None]
    ELSE IF profRead = None THEN [raise |-> "AttributeError", conf |-> None]
    ELSE [raise |-> "", conf |-> Some(CopyFields(confRead[1], form, monthLast))]

(* --------------------------- Registration ----------------------------- *)

\* Mutant: a registration is never seen as already made.
AlreadyRegistered_Never(prof, wsck) == FALSE

\* wsck in prof.conferenceKeysToAttend
AlreadyRegistered(prof, wsck) == Contains(prof.conferenceKeysToAttend, wsck)

\* Mutant: only a negative seat count refuses a registration.
NoSeatsAvailable_OffByOne(conf) == conf.seatsAvailable < 0

NoSeatsAvailable(conf) == conf.seatsAvailable <= 0

\* Mutant: the seat is not taken.
TakeSeat_Forgotten(conf) == conf

\* register user, take away one seat
TakeSeat(conf) == [conf EXCEPT !.seatsAvailable = @ - 1]

\* Mutant: the seat is not given back.
ReturnSeat_Forgotten(conf) == conf

\* unregister user, add back one seat
ReturnSeat(conf) == [conf EXCEPT !.seatsAvailable = @ + 1]

Raised(kind, msg) ==
    [raise |-> kind, msg |-> msg, retval |-> FALSE, prof |-> None, conf |-> None]

Returned(retval, prof, conf) ==
    [raise |-> "", msg |-> "", retval |-> retval, prof |-> Some(prof), conf |-> Some(conf)]

\* _conferenceRegistration, run on what the transaction read: the exception
\* raised, or retval and the two entities put.
ConferenceRegistration(user, profRead, confRead, wsck, reg) ==
    LET got == GetProfileFromUser(user, profRead) IN
    IF got.raise # "" THEN Raised(got.raise, "Authentication required")
    ELSE IF confRead = None THEN Raised("NotFound", "No conference found with key")
    ELSE
        LET prof == got.prof
            conf == confRead[1]
        IN  IF reg
            THEN IF AlreadyRegistered(prof, wsck)
                 THEN Raised("Conflict", "You have already registered for this conference")
                 ELSE IF NoSeatsAvailable(conf)
                 THEN Raised("Conflict", "There are no seats available.")
                 ELSE Returned(TRUE,
                               [prof EXCEPT !.conferenceKeysToAttend = Append(@, wsck)],
                               TakeSeat(conf))
            ELSE IF AlreadyRegistered(prof, wsck)
                 THEN Returned(TRUE,
                               [prof EXCEPT !.conferenceKeysToAttend = Remove(@, wsck)],
                               ReturnSeat(conf))
                 ELSE Returned(FALSE, prof, conf)

(* --------------------------- transactions ----------------------------- *)

\* What a transaction of caller reads when it begins (or begins again).
Snapshot(caller, op, wsck, reg, form) ==
    [op |-> op, wsck |-> wsck, reg |-> reg, form |-> form,
     prof |-> IF UserOf(caller) \in Users THEN profiles[UserOf(caller)] ELSE None,
     conf |-> conferences[wsck],
     stale |-> FALSE]

\* Mutant: no transaction, every run of the function commits.
CommitRefused_Never(t) == FALSE

\* The commit is refused when an entity group the transaction read was
\* written after its snapshot; ndb then runs the function again.
CommitRefused(t) == t.stale

RegistrationOp(reg) ==
    IF reg THEN "registerForConference" ELSE "unregisterFromConference"

\* registerForConference / unregisterFromConference: the transaction begins.
\* Without a user the function raises before it reads anything.
RegistrationBegin(caller, wsck, reg) ==
    /\ tx[caller].op = "none"
    /\ IF caller = Anonymous
       THEN /\ resp' = Response(RegistrationOp(reg), caller, wsck, "Unauthorized",
                                << "Authentication required" >>)
            /\ UNCHANGED tx
       ELSE /\ tx' = [tx EXCEPT ![caller] =
                         Snapshot(caller, "registration", wsck, reg, EmptyConferenceForm)]
            /\ UNCHANGED resp
    /\ UNCHANGED << profiles, conferences, sessions, speakerEntities, memcache,
                    taskqueue, updated, outcome, pending >>

\* ... and _conferenceRegistration runs to its end: raises (rollback), is run
\* again (commit refused), or commits both puts.
RegistrationEnd(caller) ==
    /\ tx[caller].op = "registration"
    /\ LET t == tx[caller]
           r == ConferenceRegistration(UserOf(caller), t.prof, t.conf, t.wsck, t.reg)
       IN  IF r.raise # ""
           THEN /\ resp' = Response(RegistrationOp(t.reg), caller, t.wsck,
                                    r.raise, << r.msg >>)
                /\ tx' = [tx EXCEPT ![caller] = NoTx]
                /\ UNCHANGED << profiles, conferences >>
           ELSE IF CommitRefused(t)
           THEN /\ tx' = [tx EXCEPT ![caller] =
                             Snapshot(caller, "registration", t.wsck, t.reg, t.form)]
                /\ UNCHANGED << profiles, conferences, resp >>
           ELSE /\ profiles' = [profiles EXCEPT ![UserOf(caller)] = r.prof]
                /\ conferences' = [conferences EXCEPT ![t.wsck] = r.conf]
                /\ tx' = Invalidate([tx EXCEPT ![caller] = NoTx], caller,
                                    {UserOf(caller), r.conf[1].parent})
                /\ resp' = Response(RegistrationOp(t.reg), caller, t.wsck,
                                    IF r.retval THEN "true" ELSE "false", << >>)
    /\ UNCHANGED << sessions, speakerEntities, memcache, taskqueue, updated,
                    pending >>

RegistrationCommit(caller) ==
    /\ RegistrationEnd(caller)
    /\ UNCHANGED outcome

\* updateConference: the transaction begins.  Without a user the function
\* raises before it reads anything.
UpdateConferenceBegin(caller, wsck, form) ==
    /\ tx[caller].op = "none"
    /\ IF caller = Anonymous
       THEN /\ resp' = Response("updateConference", caller, wsck, "Unauthorized", << >>)
            /\ UNCHANGED tx
       ELSE /\ tx' = [tx EXCEPT ![caller] = Snapshot(caller, "update", wsck, FALSE, form)]
            /\ UNCHANGED resp
    /\ UNCHANGED << profiles, conferences, sessions, speakerEntities, memcache,
                    taskqueue, updated, outcome, pending >>

\* ... and _updateConferenceObject runs to its end.
UpdateConferenceCommit(caller) ==
    /\ tx[caller].op = "update"
    /\ \E monthLast \in BOOLEAN :
       LET t == tx[caller]
           r == UpdateConferenceObject(UserOf(caller), t.prof, t.conf, t.form,
                                       monthLast)
       IN  IF r.raise # ""
           THEN /\ resp' = Response("updateConference", caller, t.wsck, r.raise, << >>)
                /\ tx' = [tx EXCEPT ![caller] = NoTx]
                /\ UNCHANGED << conferences, updated >>
           ELSE IF CommitRefused(t)
           THEN /\ tx' = [tx EXCEPT ![caller] =
                             Snapshot(caller, "update", t.wsck, FALSE, t.form)]
                /\ UNCHANGED << conferences, resp, updated >>
           ELSE /\ conferences' = [conferences EXCEPT ![t.wsck] = r.conf]
                /\ updated' = updated \cup {t.wsck}
                /\ tx' = Invalidate([tx EXCEPT ![caller] = NoTx], caller,
                                    {r.conf[1].parent})
                /\ resp' = Response("updateConference", caller, t.wsck, "ok", << >>)
    /\ UNCHANGED << profiles, sessions, speakerEntities, memcache, taskqueue,
                    outcome, pending >>

(* --------------------------- query results ---------------------------- *)

\* The strings the model uses, in the order the datastore indexes them.
StringOrder ==
    << "A", "B", "Default City", "Intro", "JSConf", "Keynote", "London", "Paris",
       "PyCon" >>
Rank(s) == CHOOSE i \in 1 .. Len(StringOrder) : StringOrder[i] = s

\* The elements of S in increasing order of key (key[x] differs for each x).
RECURSIVE SortByKey(_, _)
SortByKey(S, key) ==
    IF S = {} THEN << >>
    ELSE LET m == CHOOSE x \in S : \A y \in S : key[x] <= key[y]
         IN  << m >> \o SortByKey(S \ {m}, key)

RECURSIVE Occurrences(_, _)
Occurrences(seq, x) ==
    IF seq = << >> THEN 0
    ELSE (IF Head(seq) = x THEN 1 ELSE 0) + Occurrences(Tail(seq), x)

\* "TPL % args", and the empty string.
Format(tpl, args) == [tpl |-> tpl, args |-> args]
EmptyString == [tpl |-> "", args |-> << >>]

\* memcache.get(key) or ""
MemcacheGetOrEmpty(key) == IF memcache[key] = None THEN EmptyString ELSE memcache[key][1]

(* ---------------------------- Announcements --------------------------- *)

\* Conference.query(seatsAvailable <= 5, seatsAvailable > 0)
\*     .fetch(projection=[Conference.name]):
\* the names of the matching conferences, in the order of the index on
\* (seatsAvailable, name).
NearlySoldOut_AtMost(conf) == conf.seatsAvailable <= NEARLY_SOLD_OUT

NearlySoldOut(conf) == conf.seatsAvailable <= NEARLY_SOLD_OUT /\ conf.seatsAvailable > 0

NearlySoldOutNames ==
    LET S == {k \in ConfKeys : Exists(k) /\ NearlySoldOut(Conf(k))}
        key == [k \in S |->
                   (Conf(k).seatsAvailable * (Len(StringOrder) + 1) + Rank(Conf(k).name))
                       * (Cardinality(ConfKeys) + 1) + k]
        order == SortByKey(S, key)
    IN  [i \in 1 .. Len(order) |-> Conf(order[i]).name]

\* _cacheAnnouncement, run by the cron job / putAnnouncement.
CacheAnnouncement ==
    LET confs == NearlySoldOutNames
        announcement == IF confs # << >>
                        THEN Format(ANNOUNCEMENT_TPL, << confs >>) ELSE EmptyString
    IN  /\ memcache' = [memcache EXCEPT ![MEMCACHE_ANNOUNCEMENTS_KEY] =
                           IF confs # << >> THEN Some(announcement) ELSE None]
        /\ resp' = Response("cacheAnnouncement", "cron", 0, "ok", << announcement >>)
        /\ UNCHANGED << profiles, conferences, sessions, speakerEntities,
                        taskqueue, tx, updated, outcome, pending >>

\* getAnnouncement (no authentication).
GetAnnouncement(caller) ==
    /\ resp' = Response("getAnnouncement", caller, 0, "ok",
                        << MemcacheGetOrEmpty(MEMCACHE_ANNOUNCEMENTS_KEY) >>)
    /\ UNCHANGED << profiles, conferences, sessions, speakerEntities, memcache,
                    taskqueue, tx, updated, outcome, pending >>

(* ------------------------------ Session ------------------------------- *)

\* protorpc form of a session: every field absent.
EmptySessionForm ==
    [name |-> None, speakers |-> << >>, sess_date |-> None, sess_time |-> None,
     sess_type |-> None]

\* conf.startDate > session_date or conf.endDate < session_date, evaluated
\* left to right: comparing None with a date raises TypeError.
DateCheck(conf, session_date) ==
    IF conf.startDate = None THEN "TypeError"
    ELSE IF conf.startDate[1] > session_date THEN "BadRequest"
    ELSE IF conf.endDate = None THEN "TypeError"
    ELSE IF conf.endDate[1] < session_date THEN "BadRequest"
    ELSE ""

\* _createSessionObject up to the put: the exception it raises, or the Session
\* entity it stores as a child of the conference.
CreateSessionObject(user, wsck, form) ==
    IF user = Anonymous THEN [raise |-> "Unauthorized", sess |-> None]
    ELSE IF ~Exists(wsck) THEN [raise |-> "NotFound", sess |-> None]
    ELSE IF NotOwner(user, Conf(wsck)) THEN [raise |-> "Forbidden", sess |-> None]
    ELSE IF \/ form.sess_time = None \/ form.sess_date = None
            \/ form.name = None \/ form.name = Some("")
    THEN [raise |-> "BadRequest", sess |-> None]
    ELSE IF DateCheck(Conf(wsck), form.sess_date[1]) # ""
    THEN [raise |-> DateCheck(Conf(wsck), form.sess_date[1]), sess |-> None]
    ELSE [raise |-> "",
          sess |-> Some([conf |-> wsck,
                         name |-> form.name[1],
                         speakers |-> form.speakers,
                         sess_date |-> form.sess_date[1],
                         sess_time |-> form.sess_time[1],
                         sess_type |-> form.sess_type])]

\* createSession: put (not in a transaction), then taskqueue.add.
CreateSession(caller, wsck, form) ==
    /\ tx[caller].op = "none"
    /\ LET r == CreateSessionObject(caller, wsck, form) IN
       IF r.raise # ""
       THEN /\ resp' = Response("createSession", caller, wsck, r.raise, << >>)
            /\ UNCHANGED << profiles, conferences, sessions, speakerEntities,
                            memcache, taskqueue, tx, updated, outcome, pending >>
       ELSE /\ Len(sessions) < MaxSessions
            /\ sessions' = Append(sessions, r.sess[1])
            /\ taskqueue' = Append(taskqueue, FeaturedTask(wsck))
            /\ tx' = Invalidate(tx, caller, {Conf(wsck).parent})
            /\ resp' = Response("createSession", caller, wsck, "ok", << >>)
            /\ UNCHANGED << profiles, conferences, speakerEntities, memcache,
                            updated, outcome, pending >>

\* Keys (positions in the store) of the sessions that are children of wsck.
SessionsOf(wsck) == {i \in 1 .. Len(sessions) : sessions[i].conf = wsck}

\* bool(query): ndb.Query defines neither __nonzero__ nor __len__, so a Query
\* object is true whatever it would return.
QueryIsTrue(results) == TRUE

\* getConferenceSessions (no authentication): the sessions under the key
\* ordered by sess_date, then sess_time.
GetConferenceSessions(caller, wsck) ==
    /\ LET S == SessionsOf(wsck)
           key == [i \in S |->
                      (sessions[i].sess_date * 2400 + sessions[i].sess_time)
                          * (MaxSessions + 2) + i]
           order == SortByKey(S, key)
           query == [i \in 1 .. Len(order) |-> sessions[order[i]]]
       IN  resp' = IF ~QueryIsTrue(query)
                   THEN Response("getConferenceSessions", caller, wsck, "NotFound", << >>)
                   ELSE Response("getConferenceSessions", caller, wsck, "ok", query)
    /\ UNCHANGED << profiles, conferences, sessions, speakerEntities, memcache,
                    taskqueue, tx, updated, outcome, pending >>

(* -------------------------- Featured Speaker -------------------------- *)

\* Index rows of one session for one speaker value: a repeated property is
\* indexed once per distinct value.
IndexEntries_PerOccurrence(speakers, s) == Occurrences(speakers, s)

IndexEntries(speakers, s) == IF Contains(speakers, s) THEN 1 ELSE 0

\* The index rows of the session with key i: one per entry, each carrying
\* the session's name and the one speaker of the entry.
IndexRows(i) ==
    { row \in [key : {i}, name : {sessions[i].name},
               speakers : { << sessions[i].speakers[n] >> :
                               n \in 1 .. Len(sessions[i].speakers) },
               entry : 1 .. Len(sessions[i].speakers)] :
        row.entry <= IndexEntries(sessions[i].speakers, row.speakers[1]) }

\* Session.query(ancestor=wsck).fetch(projection=[Session.name, Session.speakers]):
\* one result per index row, in the order of the index (name, speaker, key).
ProjectedSessions(wsck) ==
    LET S == UNION { IndexRows(i) : i \in SessionsOf(wsck) }
        N == Len(StringOrder) + 1
        M == MaxSessions + 1
    IN  SortByKey(S, [row \in S |->
            ((Rank(row.name) * N + Rank(row.speakers[1])) * M + row.key) * M
                + row.entry])

\* Mutant: the search stops at the first speaker met a second time.
RECURSIVE FindFeatured_FirstRepeat(_, _, _)
FindFeatured_FirstRepeat(speakers, speaker_container, feat_speaker) ==
    IF speakers = << >> THEN feat_speaker
    ELSE IF ~Contains(speaker_container, Head(speakers))
    THEN FindFeatured_FirstRepeat(Tail(speakers),
                                  Append(speaker_container, Head(speakers)), feat_speaker)
    ELSE Head(speakers)

\* The search loop of _cacheFeaturedSpeaker over the speakers of the results,
\* in order: a speaker met before becomes feat_speaker, and the loop goes on.
RECURSIVE FindFeatured(_, _, _)
FindFeatured(speakers, speaker_container, feat_speaker) ==
    IF speakers = << >> THEN feat_speaker
    ELSE IF ~Contains(speaker_container, Head(speakers))
    THEN FindFeatured(Tail(speakers), Append(speaker_container, Head(speakers)),
                      feat_speaker)
    ELSE FindFeatured(Tail(speakers), speaker_container, Head(speakers))

\* The speakers of the results, in the order the loops visit them.
RECURSIVE ScanOrder(_)
ScanOrder(rows) ==
    IF rows = << >> THEN << >> ELSE Head(rows).speakers \o ScanOrder(Tail(rows))

\* [sess.name for sess in sessions if feat_speaker in sess.speakers]
FeatSessions(rows, feat_speaker) ==
    LET hits == SelectSeq(rows, LAMBDA row : Contains(row.speakers, feat_speaker))
    IN  [j \in 1 .. Len(hits) |-> hits[j].name]

\* _cacheFeaturedSpeaker(wsck), run by the task a createSession added.
SetFeaturedSpeaker(wsck) ==
    /\ \E n \in 1 .. Len(taskqueue) :
          /\ taskqueue[n] = FeaturedTask(wsck)
          /\ taskqueue' = [j \in 1 .. Len(taskqueue) - 1 |->
                              IF j < n THEN taskqueue[j] ELSE taskqueue[j + 1]]
    /\ \E rows \in {ProjectedSessions(wsck)} :
       \E feat_speaker \in {FindFeatured(ScanOrder(rows), << >>, "")} :
       \E feat_sessions \in {FeatSessions(rows, feat_speaker)} :
       \E message \in {IF feat_speaker # ""
                       THEN Format(FEATURED_TPL, << << feat_speaker >>, feat_sessions >>)
                       ELSE EmptyString} :
          /\ memcache' = [memcache EXCEPT ![MEMCACHE_FEATURED_SPEAKER_KEY] =
                             IF feat_speaker # "" THEN Some(message) ELSE None]
          /\ resp' = Response("set_featured_speaker", "taskqueue", wsck, "ok",
                              << message >>)
          /\ pending' = [pending EXCEPT !.returned = message]
    /\ UNCHANGED << profiles, conferences, sessions, speakerEntities, tx,
                    updated, outcome >>

\* getFeaturedSpeaker (no authentication).
GetFeaturedSpeaker(caller) ==
    /\ resp' = Response("getFeaturedSpeaker", caller, 0, "ok",
                        << MemcacheGetOrEmpty(MEMCACHE_FEATURED_SPEAKER_KEY) >>)
    /\ UNCHANGED << profiles, conferences, sessions, speakerEntities, memcache,
                    taskqueue, tx, updated, outcome, pending >>

(* ------------------- createSession, step by step ---------------------- *)

\* Mutant: the put of the Session is lost.
PutSession_Dropped(stored, sess) == stored

\* Session(**data).put()
PutSession(stored, sess) == Append(stored, sess)

\* createSession up to Session(**data).put(): a call that raises ends here.
CreateSessionPut(caller, wsck, form) ==
    /\ tx[caller].op = "none"
    /\ pending.put[caller] = None
    /\ LET r == CreateSessionObject(UserOf(caller), wsck, form) IN
       IF r.raise # ""
       THEN /\ resp' = Response("createSession", caller, wsck, r.raise, << >>)
            /\ UNCHANGED << sessions, tx, pending >>
       ELSE /\ Len(sessions) < MaxSessions
            /\ sessions' = PutSession(sessions, r.sess[1])
            /\ tx' = Invalidate(tx, caller, {Conf(wsck).parent})
            /\ pending' = [pending EXCEPT !.put[caller] = Some(wsck)]
            /\ UNCHANGED resp
    /\ UNCHANGED << profiles, conferences, speakerEntities, memcache, taskqueue,
                    updated, outcome >>

\* ... then taskqueue.add and the return of the form.
CreateSessionAdd(caller) ==
    /\ pending.put[caller] # None
    /\ taskqueue' = Append(taskqueue, FeaturedTask(pending.put[caller][1]))
    /\ pending' = [pending EXCEPT !.put[caller] = None]
    /\ resp' = Response("createSession", caller, pending.put[caller][1], "ok", << >>)
    /\ UNCHANGED << profiles, conferences, sessions, speakerEntities, memcache,
                    tx, updated, outcome >>

(* ----------------- _cacheFeaturedSpeaker, step by step ---------------- *)

\* Mutant: without a featured speaker the entry is left as it is.
CacheFeatured_NoDelete(cache, feat_speaker, message) ==
    IF feat_speaker # ""
    THEN [cache EXCEPT ![MEMCACHE_FEATURED_SPEAKER_KEY] = Some(message)]
    ELSE cache

\* memcache.set(key, message) with a featured speaker, memcache.delete(key)
\* without.
CacheFeatured(cache, feat_speaker, message) ==
    [cache EXCEPT ![MEMCACHE_FEATURED_SPEAKER_KEY] =
        IF feat_speaker # "" THEN Some(message) ELSE None]

\* The task runs _cacheFeaturedSpeaker(wsck) up to the message: the fetch and
\* the two loops.
FeaturedSpeakerCompute(wsck) ==
    /\ \E n \in 1 .. Len(taskqueue) :
          /\ taskqueue[n] = FeaturedTask(wsck)
          /\ taskqueue' = [j \in 1 .. Len(taskqueue) - 1 |->
                              IF j < n THEN taskqueue[j] ELSE taskqueue[j + 1]]
    /\ \E rows \in {ProjectedSessions(wsck)} :
       \E feat_speaker \in {FindFeatured(ScanOrder(rows), << >>, "")} :
       \E feat_sessions \in {FeatSessions(rows, feat_speaker)} :
       \E message \in {IF feat_speaker # ""
                       THEN Format(FEATURED_TPL, << << feat_speaker >>, feat_sessions >>)
                       ELSE EmptyString} :
          pending' = [pending EXCEPT !.computed =
                         Append(@, [wsck |-> wsck, feat_speaker |-> feat_speaker,
                                    message |-> message])]
    /\ UNCHANGED << profiles, conferences, sessions, speakerEntities, memcache,
                    tx, resp, updated, outcome >>

\* ... then one of the runs writes the cache and returns its message.
FeaturedSpeakerWrite(n) ==
    /\ n \in 1 .. Len(pending.computed)
    /\ LET run == pending.computed[n] IN
       /\ memcache' = CacheFeatured(memcache, run.feat_speaker, run.message)
       /\ resp' = Response("set_featured_speaker", "taskqueue", run.wsck, "ok",
                           << run.message >>)
       /\ pending' = [pending EXCEPT
                         !.computed = [j \in 1 .. Len(pending.computed) - 1 |->
                                          IF j < n THEN pending.computed[j]
                                          ELSE pending.computed[j + 1]],
                         !.returned = run.message]
    /\ UNCHANGED << profiles, conferences, sessions, speakerEntities, taskqueue,
                    tx, updated, outcome >>

(* ------------------------- Profile operations ------------------------- *)

\* ProfileMiniForm: every field absent.
EmptyProfileForm == [displayName |-> None, teeShirtSize |-> None]

\* The loop of _doProfile: a field of the form that is present and not empty
\* is written to the profile.
CopyProfileFields(prof, form) ==
    LET p1 == IF form.displayName = None \/ form.displayName = Some("") THEN prof
              ELSE [prof EXCEPT !.displayName = form.displayName[1]]
    IN  IF form.teeShirtSize = None THEN p1
        ELSE [p1 EXCEPT !.teeShirtSize = form.teeShirtSize[1]]

\* saveProfile: _getProfileFromUser (which puts a new Profile), then the loop
\* and its puts.  Not in a transaction.
SaveProfile(caller, form) ==
    /\ tx[caller].op = "none"
    /\ LET got == GetProfileFromUser(caller, IF caller \in Users
                                            THEN profiles[caller] ELSE None)
       IN  IF got.raise # ""
           THEN /\ resp' = Response("saveProfile", caller, 0, got.raise, << >>)
                /\ UNCHANGED << profiles, tx >>
           ELSE /\ profiles' = [profiles EXCEPT ![caller] =
                                   Some(CopyProfileFields(got.prof, form))]
                /\ tx' = IF profiles[caller] # None
                            /\ form.teeShirtSize = None
                            /\ form.displayName \in {None, Some("")}
                         THEN tx
                         ELSE Invalidate(tx, caller, {caller})
                /\ resp' = Response("saveProfile", caller, 0, "ok",
                                    << CopyProfileFields(got.prof, form) >>)
    /\ UNCHANGED << conferences, sessions, speakerEntities, memcache, taskqueue,
                    updated, outcome, pending >>

\* getConferencesCreated: the conferences that are children of the caller's
\* Profile key, in key order; getattr(prof, 'displayName') raises for the
\* first of them when the caller has no stored Profile.
GetConferencesCreated(caller) ==
    /\ LET confs == {k \in ConfKeys : Exists(k) /\ Conf(k).parent = caller}
           items == SortByKey(confs, [k \in confs |-> k])
       IN  resp' = IF caller = Anonymous
                   THEN Response("getConferencesCreated", caller, 0, "Unauthorized", << >>)
                   ELSE IF confs # {} /\ profiles[caller] = None
                   THEN Response("getConferencesCreated", caller, 0, "AttributeError", << >>)
                   ELSE Response("getConferencesCreated", caller, 0, "ok", items)
    /\ UNCHANGED << profiles, conferences, sessions, speakerEntities, memcache,
                    taskqueue, tx, updated, outcome, pending >>

(* ------------------------------ Wishlist ------------------------------ *)

WishlistOp(add) ==
    IF add THEN "addSessionToWishlist" ELSE "removeSessionFromWishlist"

\* Mutant: a session already in the wishlist is appended again.
InWishlist_Never(prof, s_key) == FALSE

\* s_key in prof.session_wishlist
InWishlist(prof, s_key) == Contains(prof.session_wishlist, s_key)

\* _sessionWishlist on the profile _getProfileFromUser returned: the exception
\* raised, or retval and the profile put.
SessionWishlistObject(prof, s_key, add) ==
    IF add
    THEN IF InWishlist(prof, s_key)
         THEN [raise |-> "Conflict", retval |-> FALSE, prof |-> prof]
         ELSE [raise |-> "", retval |-> TRUE,
               prof |-> [prof EXCEPT !.session_wishlist = Append(@, s_key)]]
    ELSE IF InWishlist(prof, s_key)
         THEN [raise |-> "", retval |-> FALSE,
               prof |-> [prof EXCEPT !.session_wishlist = Remove(@, s_key)]]
         ELSE [raise |-> "", retval |-> FALSE, prof |-> prof]

\* addSessionToWishlist / removeSessionFromWishlist.  Not in a transaction:
\* the Profile _getProfileFromUser created stays when the call raises.
SessionWishlist(caller, s_key, add) ==
    /\ tx[caller].op = "none"
    /\ LET got == GetProfileFromUser(caller, IF caller \in Users
                                            THEN profiles[caller] ELSE None)
           r == SessionWishlistObject(got.prof, s_key, add)
       IN  IF got.raise # ""
           THEN /\ resp' = Response(WishlistOp(add), caller, s_key, got.raise, << >>)
                /\ UNCHANGED << profiles, tx >>
           ELSE /\ profiles' = [profiles EXCEPT ![caller] = Some(r.prof)]
                /\ tx' = IF r.raise # "" /\ profiles[caller] # None THEN tx
                         ELSE Invalidate(tx, caller, {caller})
                /\ resp' = IF r.raise # ""
                           THEN Response(WishlistOp(add), caller, s_key, r.raise, << >>)
                           ELSE Response(WishlistOp(add), caller, s_key,
                                         IF r.retval THEN "true" ELSE "false", << >>)
    /\ UNCHANGED << conferences, sessions, speakerEntities, memcache, taskqueue,
                    updated, outcome, pending >>

(* --------------------------- session queries -------------------------- *)

TYPE_EXCLUDE == "Workshop"
\* TIME_END = '19:00', as the number HHMM
TIME_END == 1900
\* time(0, 0)
MIDNIGHT == 0

\* Mutant: a session at the stop time passes the filter.
BeforeStop_Inclusive(sess, stop_time) == sess.sess_time <= stop_time

\* Session.sess_time < stop_time
BeforeStop(sess, stop_time) == sess.sess_time < stop_time

\* _filterSessionByTime: the sessions under wsck before stop_time, ordered by
\* sess_time; then those at or after start_time.
FilterSessionByTime(wsck, stop_time, start_time) ==
    LET S == {i \in SessionsOf(wsck) : BeforeStop(sessions[i], stop_time)}
        step_one == SortByKey(S, [i \in S |->
                        sessions[i].sess_time * (MaxSessions + 2) + i])
    IN  SelectSeq(step_one, LAMBDA i : sessions[i].sess_time >= start_time)

\* nonWorkshopBeforeSeven (no authentication).
NonWorkshopBeforeSeven(caller, wsck) ==
    /\ \E found \in {FilterSessionByTime(wsck, TIME_END, MIDNIGHT)} :
          resp' = Response("nonWorkshopBeforeSeven", caller, wsck, "ok",
                           SelectSeq(found,
                               LAMBDA i : sessions[i].sess_type # Some(TYPE_EXCLUDE)))
    /\ UNCHANGED << profiles, conferences, sessions, speakerEntities, memcache,
                    taskqueue, tx, updated, outcome, pending >>

(* ------------------------------ Speaker ------------------------------- *)

\* SpeakerForm: every field absent.
EmptySpeakerForm == [mainEmail |-> None, displayName |-> None]

\* The Speaker entity put: a child of the session key, its id the mainEmail.
SpeakerObject(s_key, form) ==
    [session |-> s_key, mainEmail |-> form.mainEmail, displayName |-> form.displayName]

\* createSpeaker: no check of the caller, none of the session; the put
\* replaces a Speaker of the same key.
CreateSpeaker(caller, s_key, form) ==
    /\ tx[caller].op = "none"
    /\ speakerEntities' =
           {sp \in speakerEntities :
               ~(sp.session = s_key /\ sp.mainEmail = form.mainEmail)}
               \cup {SpeakerObject(s_key, form)}
    /\ tx' = IF s_key \in 1 .. Len(sessions)
             THEN Invalidate(tx, caller, {Conf(sessions[s_key].conf).parent})
             ELSE tx
    /\ resp' = Response("createSpeaker", caller, s_key, "ok", << >>)
    /\ UNCHANGED << profiles, conferences, sessions, memcache, taskqueue,
                    updated, outcome, pending >>

(* ------------------------- queryConferences --------------------------- *)

OPERATORS ==
    [EQ |-> "=", GT |-> ">", GTEQ |-> ">=", LT |-> "<", LTEQ |-> "<=", NE |-> "!="]

FIELDS ==
    [CITY |-> "city", TOPIC |-> "topics", MONTH |-> "month",
     MAX_ATTENDEES |-> "maxAttendees"]

\* int(s) for the decimal strings the model uses.
DecimalStrings == << "0", "1", "2", "3", "4", "5", "6", "7", "8", "9", "10", "11", "12" >>
ParseInt(s) == (CHOOSE i \in 1 .. Len(DecimalStrings) : DecimalStrings[i] = s) - 1

\* Mutant: an inequality on a second field is let through.
InequalityConflict_Never(inequality_field, field) == FALSE

\* inequality_field and inequality_field != filtr["field"]
InequalityConflict(inequality_field, field) ==
    inequality_field # None /\ inequality_field[1] # field

\* _formatFilters, from the filter at the head on: the exception raised, or
\* the inequality field and the formatted filters.
RECURSIVE FormatFiltersFrom(_, _)
FormatFiltersFrom(filters, inequality_field) ==
    IF filters = << >>
    THEN [raise |-> "", inequality_field |-> inequality_field, filters |-> << >>]
    ELSE LET f == Head(filters) IN
         IF f.field \notin DOMAIN FIELDS \/ f.operator \notin DOMAIN OPERATORS
         THEN [raise |-> "BadRequest", inequality_field |-> None, filters |-> << >>]
         ELSE LET filtr == [field |-> FIELDS[f.field],
                            operator |-> OPERATORS[f.operator], value |-> f.value]
              IN  IF filtr.operator # "="
                     /\ InequalityConflict(inequality_field, filtr.field)
                  THEN [raise |-> "BadRequest", inequality_field |-> None,
                        filters |-> << >>]
                  ELSE LET rest == FormatFiltersFrom(Tail(filters),
                                       IF filtr.operator # "=" THEN Some(filtr.field)
                                       ELSE inequality_field)
                       IN  IF rest.raise # "" THEN rest
                           ELSE [rest EXCEPT !.filters = << filtr >> \o @]

FormatFilters(filters) == FormatFiltersFrom(filters, None)

\* The place of a property value in its index: strings by their order,
\* integers by their value.
IndexValue(field, v) == IF field = "city" THEN Rank(v) ELSE v

\* The value of the property of a conference, as indexed.
PropertyValue(conf, field) ==
    IF field = "city" THEN Rank(conf.city)
    ELSE IF field = "month" THEN conf.month
    ELSE conf.maxAttendees

\* ndb.query.FilterNode(field, operator, value) on one conference; the value
\* of a month or maxAttendees filter goes through int().
FilterNode(conf, filtr) ==
    LET a == PropertyValue(conf, filtr.field)
        b == IndexValue(filtr.field,
                        IF filtr.field \in {"month", "maxAttendees"}
                        THEN ParseInt(filtr.value) ELSE filtr.value)
    IN  CASE filtr.operator = "="  -> a = b
          [] filtr.operator = ">"  -> a > b
          [] filtr.operator = ">=" -> a >= b
          [] filtr.operator = "<"  -> a < b
          [] filtr.operator = "<=" -> a <= b
          [] filtr.operator = "!=" -> a # b

\* _getQuery: the keys of the conferences that pass every filter, ordered by
\* the inequality field (if any), then name, then key.
GetQuery(filters) ==
    LET ff == FormatFilters(filters)
        S == {k \in ConfKeys : Exists(k)
                  /\ \A i \in 1 .. Len(ff.filters) : FilterNode(Conf(k), ff.filters[i])}
        first == [k \in S |-> IF ff.inequality_field = None THEN 0
                              ELSE PropertyValue(Conf(k), ff.inequality_field[1])]
    IN  IF ff.raise # "" THEN [raise |-> ff.raise, keys |-> << >>]
        ELSE [raise |-> "",
              keys |-> SortByKey(S, [k \in S |->
                          (first[k] * 100 + Rank(Conf(k).name)) * 10 + k])]

\* queryConferences (no authentication): the query, then the organisers'
\* profiles; profile.key raises when an organiser has no stored Profile.
QueryConferences(caller, filters) ==
    /\ \E q \in {GetQuery(filters)} :
          resp' = IF q.raise # ""
                  THEN Response("queryConferences", caller, 0, q.raise, << >>)
                  ELSE IF \E i \in 1 .. Len(q.keys) :
                             profiles[Conf(q.keys[i]).organizerUserId] = None
                  THEN Response("queryConferences", caller, 0, "AttributeError", << >>)
                  ELSE Response("queryConferences", caller, 0, "ok", q.keys)
    /\ UNCHANGED << profiles, conferences, sessions, speakerEntities, memcache,
                    taskqueue, tx, updated, outcome, pending >>

(* --------------------------- initial state ---------------------------- *)

Init ==
    /\ profiles = [u \in Users |-> None]
    /\ conferences = [k \in ConfKeys |-> None]
    /\ sessions = << >>
    /\ speakerEntities = {}
    /\ memcache = [k \in {MEMCACHE_ANNOUNCEMENTS_KEY, MEMCACHE_FEATURED_SPEAKER_KEY} |-> None]
    /\ taskqueue = << >>
    /\ tx = [c \in Callers |-> NoTx]
    /\ resp = NoResp
    /\ updated = {}
    /\ outcome = [c \in Callers |-> ""]
    /\ pending = NoPending

(* ------------------- specification: registration ---------------------- *)
(* Two users and an unauthenticated caller create conferences and register *)
(* and unregister concurrently.                                            *)

RegCallers == {"u1", "u2", Anonymous}
Organizers == {"u1", Anonymous}

SeatForms ==
    { [EmptyConferenceForm EXCEPT !.name = n, !.maxAttendees = m] :
        n \in {None, Some("PyCon")}, m \in {None} \cup {Some(i) : i \in 1 .. MaxSeats} }

Next ==
    \/ \E caller \in Organizers, form \in SeatForms : CreateConference(caller, form)
    \/ \E caller \in RegCallers, wsck \in ConfKeys, reg \in BOOLEAN :
          RegistrationBegin(caller, wsck, reg)
    \/ \E caller \in RegCallers : RegistrationCommit(caller)

Spec == Init /\ [][Next]_vars

(* ------------------- specification: conferences ----------------------- *)
(* One organizer (and an unauthenticated caller) creates and updates       *)
(* conferences, with forms that carry the seat fields, and registers.      *)

ConfCallers == {"u1", Anonymous}

CreateForms ==
    { [EmptyConferenceForm EXCEPT !.name = n, !.maxAttendees = m, !.seatsAvailable = s] :
        n \in {None, Some("PyCon")}, m \in {None, Some(1), Some(2)},
        s \in {None, Some(1)} }

UpdateForms ==
    { [EmptyConferenceForm EXCEPT !.maxAttendees = m, !.seatsAvailable = s] :
        m \in {None, Some(1)}, s \in {None, Some(0), Some(2)} }

NextConf ==
    \/ \E caller \in ConfCallers, form \in CreateForms : CreateConference(caller, form)
    \/ \E caller \in ConfCallers, wsck \in ConfKeys, form \in UpdateForms :
          UpdateConferenceBegin(caller, wsck, form)
    \/ \E caller \in ConfCallers : UpdateConferenceCommit(caller)
    \/ \E caller \in ConfCallers, wsck \in ConfKeys, reg \in BOOLEAN :
          RegistrationBegin(caller, wsck, reg)
    \/ \E caller \in ConfCallers : RegistrationCommit(caller)

SpecConf == Init /\ [][NextConf]_vars

(* ----------------------- specification: race -------------------------- *)
(* A conference with k seats has been created; every user registers for it *)
(* once, all calls running concurrently.                                   *)

RaceKey == 1

InitRace ==
    /\ \E k \in 0 .. MaxSeats :
          conferences = [c \in ConfKeys |->
              IF c = RaceKey
              THEN CreateConferenceObject("u1",
                       [EmptyConferenceForm EXCEPT !.name = Some("PyCon"),
                                                   !.maxAttendees = Some(k)]).conf
              ELSE None]
    /\ taskqueue = << EmailTask("u1") >>
    /\ profiles = [u \in Users |-> None]
    /\ sessions = << >>
    /\ speakerEntities = {}
    /\ memcache = [k \in {MEMCACHE_ANNOUNCEMENTS_KEY, MEMCACHE_FEATURED_SPEAKER_KEY} |-> None]
    /\ tx = [c \in Callers |-> NoTx]
    /\ resp = NoResp
    /\ updated = {}
    /\ outcome = [c \in Callers |-> ""]
    /\ pending = NoPending

RaceBegin(caller) ==
    /\ outcome[caller] = ""
    /\ RegistrationBegin(caller, RaceKey, TRUE)

RaceCommit(caller) ==
    /\ RegistrationEnd(caller)
    /\ outcome' = [outcome EXCEPT ![caller] =
                      IF tx'[caller].op = "none" THEN resp'.result ELSE @]

NextRace ==
    \/ \E caller \in Users : RaceBegin(caller)
    \/ \E caller \in Users : RaceCommit(caller)

SpecRace == InitRace /\ [][NextRace]_vars

(* --------------------- specification: sessions ------------------------ *)
(* The organizer, another user and an unauthenticated caller create        *)
(* sessions in conferences with and without dates, with forms that are     *)
(* complete, incomplete, and dated inside and outside the conference; the  *)
(* sessions of a conference are read.                                      *)

SessCallers == {"u1", "u2", Anonymous}

SessConfForms ==
    { [EmptyConferenceForm EXCEPT !.name = Some("PyCon"), !.startDate = d[1],
                                  !.endDate = d[2]] :
        d \in { << None, None >>, << Some(601), Some(605) >> } }

SessionForms ==
    { [EmptySessionForm EXCEPT !.name = n, !.speakers = << "A" >>, !.sess_date = d,
                               !.sess_time = Some(1000), !.sess_type = Some("Talk")] :
        n \in {None, Some("Intro")}, d \in {Some(603), Some(610)} }

NextSess ==
    \/ \E form \in SessConfForms : CreateConference("u1", form)
    \/ \E caller \in SessCallers, wsck \in ConfKeys, form \in SessionForms :
          CreateSession(caller, wsck, form)
    \/ \E wsck \in ConfKeys : SetFeaturedSpeaker(wsck)
    \/ \E wsck \in ConfKeys : GetConferenceSessions(Anonymous, wsck)
    \/ GetFeaturedSpeaker(Anonymous)

SpecSess == Init /\ [][NextSess]_vars

(* ------------------ specification: featured speaker ------------------- *)
(* Two conferences of one organizer exist.  The organizer adds sessions:   *)
(* to the first, sessions of two names with one speaker, two speakers, or  *)
(* one speaker listed twice; to the second, sessions of one name and one   *)
(* speaker.  The tasks the calls add run in any order.                     *)

FeatConference ==
    CreateConferenceObject("u1",
        [EmptyConferenceForm EXCEPT !.name = Some("PyCon"), !.startDate = Some(601),
                                    !.endDate = Some(605)]).conf

InitFeat ==
    /\ conferences = [c \in ConfKeys |-> FeatConference]
    /\ taskqueue = << >>
    /\ profiles = [u \in Users |-> None]
    /\ sessions = << >>
    /\ speakerEntities = {}
    /\ memcache = [k \in {MEMCACHE_ANNOUNCEMENTS_KEY, MEMCACHE_FEATURED_SPEAKER_KEY} |-> None]
    /\ tx = [c \in Callers |-> NoTx]
    /\ resp = NoResp
    /\ updated = {}
    /\ outcome = [c \in Callers |-> ""]
    /\ pending = NoPending

FeatForms(wsck) ==
    { [EmptySessionForm EXCEPT !.name = Some(n), !.speakers = sp,
                               !.sess_date = Some(603), !.sess_time = Some(1000),
                               !.sess_type = Some("Talk")] :
        n \in (IF wsck = 1 THEN {"Intro", "Keynote"} ELSE {"Intro"}),
        sp \in (IF wsck = 1
                THEN { << "A" >>, << "B" >>, << "A", "B" >>, << "A", "A" >> }
                ELSE { << "A" >> }) }

NextFeat ==
    \/ \E wsck \in ConfKeys : \E form \in FeatForms(wsck) : CreateSession("u1", wsck, form)
    \/ \E wsck \in ConfKeys : SetFeaturedSpeaker(wsck)
    \/ GetFeaturedSpeaker(Anonymous)

SpecFeat == InitFeat /\ [][NextFeat]_vars

(* ------------------- specification: announcements --------------------- *)
(* Conferences with no seats, with NEARLY_SOLD_OUT seats and with one more *)
(* are created, a user registers and unregisters, the announcement is      *)
(* refreshed and read.                                                     *)

AnnForms ==
    { [EmptyConferenceForm EXCEPT !.name = Some(n), !.maxAttendees = m] :
        n \in {"PyCon", "JSConf"},
        m \in {None, Some(NEARLY_SOLD_OUT), Some(NEARLY_SOLD_OUT + 1)} }

NextAnn ==
    \/ \E form \in AnnForms : CreateConference("u1", form)
    \/ \E wsck \in ConfKeys, reg \in BOOLEAN : RegistrationBegin("u2", wsck, reg)
    \/ RegistrationCommit("u2")
    \/ CacheAnnouncement
    \/ GetAnnouncement(Anonymous)

SpecAnn == Init /\ [][NextAnn]_vars

(* -------------------- specification: ownership ------------------------ *)
(* u1 creates conferences; u1 and u2 update them and add sessions.  An    *)
(* update may name another organizerUserId.                               *)

OwnerCallers == {"u1", "u2"}

OwnerConfForm ==
    [EmptyConferenceForm EXCEPT !.name = Some("PyCon"), !.startDate = Some(601),
                                !.endDate = Some(605)]

OwnerUpdateForms ==
    { [EmptyConferenceForm EXCEPT !.name = Some("JSConf")],
      [EmptyConferenceForm EXCEPT !.organizerUserId = Some("u2")] }

OwnerSessionForm ==
    [EmptySessionForm EXCEPT !.name = Some("Intro"), !.speakers = << "A" >>,
                             !.sess_date = Some(603), !.sess_time = Some(1000)]

NextOwner ==
    \/ SaveProfile("u1", EmptyProfileForm)
    \/ CreateConference("u1", OwnerConfForm)
    \/ \E caller \in OwnerCallers, form \in OwnerUpdateForms :
          UpdateConferenceBegin(caller, 1, form)
    \/ \E caller \in OwnerCallers : UpdateConferenceCommit(caller)
    \/ \E caller \in OwnerCallers, wsck \in ConfKeys :
          CreateSession(caller, wsck, OwnerSessionForm)

SpecOwner == Init /\ [][NextOwner]_vars

(* ------------------ specification: created defaults ------------------- *)
(* createConference with every combination of absent, empty and given     *)
(* fields.                                                                *)

DefaultForms ==
    { [EmptyConferenceForm EXCEPT !.name = n, !.city = c, !.topics = t,
                                  !.maxAttendees = m, !.startDate = d] :
        n \in {None, Some(""), Some("PyCon")},
        c \in {None, Some(""), Some("Paris")},
        t \in {<< >>, << "Web" >>},
        m \in {None, Some(0), Some(MaxSeats)},
        d \in {None, Some(601)} }

NextCreate ==
    \E caller \in {"u1", Anonymous}, form \in DefaultForms :
        CreateConference(caller, form)

SpecCreate == Init /\ [][NextCreate]_vars

(* ------------------------ specification: queries ---------------------- *)
(* u1 creates conferences in two cities and two months and stores a       *)
(* profile; anyone queries with lists of up to MaxFilters filters.        *)

MaxFilters == 2

QueryConfForms ==
    { [EmptyConferenceForm EXCEPT !.name = Some(f[1]), !.city = Some(f[2]),
                                  !.startDate = Some(f[3])] :
        f \in { << "PyCon", "London", 601 >>, << "JSConf", "Paris", 701 >>,
                << "JSConf", "London", 601 >>, << "PyCon", "Paris", 701 >> } }

\* ConferenceQueryForm messages; NAME is not one of FIELDS.
QueryForms ==
    { [field |-> "MONTH", operator |-> "GT", value |-> "5"],
      [field |-> "MONTH", operator |-> "LTEQ", value |-> "6"],
      [field |-> "CITY", operator |-> "GT", value |-> "A"],
      [field |-> "CITY", operator |-> "EQ", value |-> "London"],
      [field |-> "NAME", operator |-> "EQ", value |-> "PyCon"] }

FilterLists == UNION { [1 .. n -> QueryForms] : n \in 0 .. MaxFilters }

NextQuery ==
    \/ \E form \in QueryConfForms : CreateConference("u1", form)
    \/ SaveProfile("u1", EmptyProfileForm)
    \/ \E filters \in FilterLists : QueryConferences(Anonymous, filters)

SpecQuery == Init /\ [][NextQuery]_vars

(* ----------------------- specification: wishlist ---------------------- *)
(* u1 and an unauthenticated caller add and remove session keys; the key  *)
(* is any string, no session need be stored under it.                     *)

WishCallers == {"u1", Anonymous}
WishKeys == 1 .. MaxSessions

NextWish ==
    \E caller \in WishCallers, s_key \in WishKeys, add \in BOOLEAN :
        SessionWishlist(caller, s_key, add)

SpecWish == Init /\ [][NextWish]_vars

(* ------------------- specification: sessions by time ------------------ *)
(* Both conferences exist.  u1 adds sessions just before and at the stop   *)
(* time, of type Workshop, workshop or none; anyone asks for the sessions  *)
(* of a conference that are not workshops and start before seven.          *)

TimeForms(wsck) ==
    { [EmptySessionForm EXCEPT !.name = Some("Intro"), !.speakers = << "A" >>,
                               !.sess_date = Some(603), !.sess_time = Some(t),
                               !.sess_type = ty] :
        t \in (IF wsck = 1 THEN {1859, 1900} ELSE {1000}),
        ty \in (IF wsck = 1 THEN {None, Some("Workshop"), Some("workshop")}
                ELSE {None}) }

NextTime ==
    \/ \E wsck \in ConfKeys : \E form \in TimeForms(wsck) : CreateSession("u1", wsck, form)
    \/ \E wsck \in ConfKeys : NonWorkshopBeforeSeven(Anonymous, wsck)

SpecTime == InitFeat /\ [][NextTime]_vars

(* -------------- specification: unauthenticated callers ---------------- *)
(* Every operation that writes is called by u1 and by a caller without a   *)
(* user.                                                                   *)

AnonCallers == {"u1", Anonymous}

AnonConfForm == [OwnerConfForm EXCEPT !.maxAttendees = Some(1)]

AnonSpeakerForm ==
    [EmptySpeakerForm EXCEPT !.mainEmail = Some("a@example.com"),
                             !.displayName = Some("A")]

NextAnon ==
    \/ \E caller \in AnonCallers : SaveProfile(caller, EmptyProfileForm)
    \/ \E caller \in AnonCallers : CreateConference(caller, AnonConfForm)
    \/ \E caller \in AnonCallers :
          UpdateConferenceBegin(caller, 1,
                                [EmptyConferenceForm EXCEPT !.name = Some("JSConf")])
    \/ \E caller \in AnonCallers : UpdateConferenceCommit(caller)
    \/ \E caller \in AnonCallers, reg \in BOOLEAN : RegistrationBegin(caller, 1, reg)
    \/ \E caller \in AnonCallers : RegistrationCommit(caller)
    \/ \E caller \in AnonCallers : CreateSession(caller, 1, OwnerSessionForm)
    \/ \E caller \in AnonCallers, add \in BOOLEAN : SessionWishlist(caller, 1, add)
    \/ \E caller \in AnonCallers : CreateSpeaker(caller, 1, AnonSpeakerForm)

SpecAnon == Init /\ [][NextAnon]_vars

(* ------------------- specification: conference edits ------------------ *)
(* u1 creates conferences with and without a start date; u1 and u2 update  *)
(* the first with forms that carry a start date, a month, both, or an      *)
(* organizerUserId, and list the conferences they created.                 *)

EditCallers == {"u1", "u2"}

EditCreateForms ==
    { [EmptyConferenceForm EXCEPT !.name = Some("PyCon"), !.startDate = d] :
        d \in {None, Some(601)} }

EditUpdateForms ==
    { [EmptyConferenceForm EXCEPT !.startDate = Some(701)],
      [EmptyConferenceForm EXCEPT !.month = Some(7)],
      [EmptyConferenceForm EXCEPT !.startDate = Some(701), !.month = Some(3)],
      [EmptyConferenceForm EXCEPT !.organizerUserId = Some("u2")] }

NextEdit ==
    \/ \E caller \in EditCallers : SaveProfile(caller, EmptyProfileForm)
    \/ \E form \in EditCreateForms : CreateConference("u1", form)
    \/ \E caller \in EditCallers, form \in EditUpdateForms :
          UpdateConferenceBegin(caller, 1, form)
    \/ \E caller \in EditCallers : UpdateConferenceCommit(caller)
    \/ \E caller \in EditCallers : GetConferencesCreated(caller)

SpecEdit == Init /\ [][NextEdit]_vars

(* ------------- specification: one user, two clients ------------------- *)
(* u1 creates conferences; two clients of u1 register and unregister,     *)
(* their transactions overlapping in every way.                           *)

DupCallers == {"u1", SecondClient}

DupConfForm ==
    [EmptyConferenceForm EXCEPT !.name = Some("PyCon"), !.maxAttendees = Some(MaxSeats)]

NextDup ==
    \/ CreateConference("u1", DupConfForm)
    \/ \E caller \in DupCallers, wsck \in ConfKeys, reg \in BOOLEAN :
          RegistrationBegin(caller, wsck, reg)
    \/ \E caller \in DupCallers : RegistrationCommit(caller)

SpecDup == Init /\ [][NextDup]_vars

(* --------------- specification: session, then its task ---------------- *)
(* u1 creates dated conferences.  Two clients of u1, u2 and a caller       *)
(* without a user create sessions, each call in two steps (put, then       *)
(* taskqueue.add); the tasks run in any order, each in two steps.          *)

\* The createSession calls made: (caller, websafeConferenceKey, form).
TaskCalls ==
    ({"u1", SecondClient} \X ConfKeys \X {OwnerSessionForm})
        \cup ({"u2", Anonymous} \X {1} \X {OwnerSessionForm})
        \cup ({"u1"} \X {1} \X { [OwnerSessionForm EXCEPT !.sess_date = Some(610)],
                                 [OwnerSessionForm EXCEPT !.name = None] })

NextTask ==
    \/ CreateConference("u1", OwnerConfForm)
    \/ \E call \in TaskCalls : CreateSessionPut(call[1], call[2], call[3])
    \/ \E caller \in {"u1", SecondClient} : CreateSessionAdd(caller)
    \/ \E wsck \in ConfKeys : FeaturedSpeakerCompute(wsck)
    \/ \E n \in 1 .. MaxSessions : FeaturedSpeakerWrite(n)

SpecTask == Init /\ [][NextTask]_vars

(* ---------------- specification: featured-speaker cache --------------- *)
(* Both conferences exist.  u1 adds sessions of speaker A to the first and *)
(* of speaker B to the second; the tasks compute and write in any order,   *)
(* the announcement is refreshed, and anyone reads the featured speaker.   *)

CacheForms(wsck) ==
    { [EmptySessionForm EXCEPT !.name = Some(n), !.speakers = sp,
                               !.sess_date = Some(603), !.sess_time = Some(1000)] :
        n \in (IF wsck = 1 THEN {"Intro", "Keynote"} ELSE {"Intro"}),
        sp \in (IF wsck = 1 THEN { << "A" >> } ELSE { << "B" >> }) }

NextCache ==
    \/ \E wsck \in ConfKeys : \E form \in CacheForms(wsck) : CreateSession("u1", wsck, form)
    \/ \E wsck \in ConfKeys : FeaturedSpeakerCompute(wsck)
    \/ \E n \in 1 .. MaxSessions : FeaturedSpeakerWrite(n)
    \/ CacheAnnouncement
    \/ GetFeaturedSpeaker(Anonymous)

SpecCache == InitFeat /\ [][NextCache]_vars

(* ============================== claims ================================ *)

\* What the transaction of caller u read as the caller's attending list.
SnapAttending(u) ==
    IF tx[u].prof = None THEN << >> ELSE tx[u].prof[1].conferenceKeysToAttend

\* The step completes the registration call (reg) of caller u.
Completes(u, reg) ==
    /\ tx[u].op = "registration"
    /\ tx[u].reg = reg
    /\ tx'[u].op = "none"

\* Number of profiles whose attending list holds the conference.
AttendeeCount(k) == Cardinality({u \in Users : Contains(Attending(u), k)})

\* C1: every stored conference has 0 <= seatsAvailable <= maxAttendees, in
\* every state reachable by createConference, updateConference,
\* registerForConference and unregisterFromConference.
C1_SeatsWithinMax ==
    \A k \in ConfKeys :
        Exists(k) =>
            /\ 0 <= Conf(k).seatsAvailable
            /\ Conf(k).seatsAvailable <= Conf(k).maxAttendees

\* C2: a registerForConference of an authenticated caller that reads an
\* existing conference with seatsAvailable > 0 that is not in the caller's
\* attending list returns true, appends the key to that list, takes exactly
\* one seat, and changes no other profile and no other conference.
C2_RegisterSucceeds ==
    [][\A u \in Users :
        ( /\ Completes(u, TRUE)
          /\ tx[u].conf # None
          /\ ~Contains(SnapAttending(u), tx[u].wsck)
          /\ tx[u].conf[1].seatsAvailable > 0 )
        => /\ resp' = Response("registerForConference", u, tx[u].wsck, "true", << >>)
           /\ profiles'[u] # None
           /\ profiles'[u][1].conferenceKeysToAttend = Append(Attending(u), tx[u].wsck)
           /\ conferences'[tx[u].wsck] =
                 Some([Conf(tx[u].wsck) EXCEPT !.seatsAvailable = @ - 1])
           /\ \A v \in Users \ {u} : profiles'[v] = profiles[v]
           /\ \A k \in ConfKeys \ {tx[u].wsck} : conferences'[k] = conferences[k]
      ]_vars

C2_Witness ==
    /\ resp.op = "registerForConference"
    /\ resp.result = "true"
    /\ Contains(Attending(resp.caller), resp.wsck)
    /\ \E k \in ConfKeys \ {resp.wsck} : Exists(k)
    /\ \E v \in Users \ {resp.caller} : Attending(v) # << >>

\* C3: a registerForConference that reads the conference in the caller's
\* attending list, or reads seatsAvailable <= 0, fails with Conflict, and
\* leaves every profile and every conference as it was.
C3_RegisterConflicts ==
    [][\A u \in Users :
        ( /\ Completes(u, TRUE)
          /\ tx[u].conf # None
          /\ \/ Contains(SnapAttending(u), tx[u].wsck)
             \/ tx[u].conf[1].seatsAvailable <= 0 )
        => /\ resp'.op = "registerForConference"
           /\ resp'.caller = u
           /\ resp'.result = "Conflict"
           /\ profiles' = profiles
           /\ conferences' = conferences
      ]_vars

\* A third party is refused the last seat another caller has taken.
C3_Witness ==
    /\ resp.op = "registerForConference"
    /\ resp.result = "Conflict"
    /\ resp.data = << "There are no seats available." >>
    /\ Exists(resp.wsck)
    /\ Conf(resp.wsck).maxAttendees = 1
    /\ Conf(resp.wsck).seatsAvailable = 0
    /\ ~Contains(Attending(resp.caller), resp.wsck)
    /\ \E v \in Users \ {resp.caller} : Contains(Attending(v), resp.wsck)

\* C4: an unregisterFromConference for an existing conference returns false
\* and changes neither the attending list nor seatsAvailable when the key is
\* not in the caller's attending list; when it is, the key is removed,
\* seatsAvailable grows by exactly 1 and the call returns true.
C4_Unregister ==
    [][\A u \in Users :
        ( Completes(u, FALSE) /\ tx[u].conf # None )
        => /\ resp'.op = "unregisterFromConference"
           /\ resp'.caller = u
           /\ IF Contains(SnapAttending(u), tx[u].wsck)
              THEN /\ resp'.result = "true"
                   /\ Attending(u)' = Remove(Attending(u), tx[u].wsck)
                   /\ ~Contains(Attending(u)', tx[u].wsck)
                   /\ conferences'[tx[u].wsck] =
                         Some([Conf(tx[u].wsck) EXCEPT !.seatsAvailable = @ + 1])
              ELSE /\ resp'.result = "false"
                   /\ Attending(u)' = Attending(u)
                   /\ conferences'[tx[u].wsck] = conferences[tx[u].wsck]
      ]_vars

C4_Witness ==
    /\ resp.op = "unregisterFromConference"
    /\ resp.result = "true"
    /\ Exists(resp.wsck)
    /\ ~Contains(Attending(resp.caller), resp.wsck)
    /\ Conf(resp.wsck).seatsAvailable = Conf(resp.wsck).maxAttendees
    /\ Conf(resp.wsck).maxAttendees > 0

\* C5: concurrent registrations of n distinct callers for a conference with
\* k seats behave as if run one after another: seatsAvailable is never
\* negative and, once all calls have returned, exactly min(k, n) returned
\* true, the others failed with Conflict, the seats left are k minus the
\* successes, and exactly the successful callers attend.
RaceDone == \A u \in Users : outcome[u] # ""
Successes == {u \in Users : outcome[u] = "true"}
MinOf(a, b) == IF a <= b THEN a ELSE b

C5_RaceSerializable ==
    /\ Conf(RaceKey).seatsAvailable >= 0
    /\ RaceDone =>
        /\ Cardinality(Successes) =
              MinOf(Conf(RaceKey).maxAttendees, Cardinality(Users))
        /\ \A u \in Users \ Successes : outcome[u] = "Conflict"
        /\ Conf(RaceKey).seatsAvailable =
              Conf(RaceKey).maxAttendees - Cardinality(Successes)
        /\ \A u \in Users : (u \in Successes) <=> Contains(Attending(u), RaceKey)

\* More registrants than seats, all returned, one of them after its commit
\* had been refused.
C5_Witness ==
    /\ RaceDone
    /\ Conf(RaceKey).maxAttendees = 2
    /\ Cardinality(Successes) = 2
    /\ \E u \in Users : outcome[u] = "Conflict"

\* C6: for every conference created with maxAttendees > 0 that no
\* updateConference has written, maxAttendees - seatsAvailable is the number
\* of profiles whose attending list holds the conference, in every committed
\* state of every interleaving of register and unregister calls.
C6_SeatsMatchAttendance ==
    \A k \in ConfKeys :
        (Exists(k) /\ Conf(k).maxAttendees > 0 /\ k \notin updated)
        => Conf(k).maxAttendees - Conf(k).seatsAvailable = AttendeeCount(k)

\* A registration committed while another caller's transaction was open, so
\* that one was refused and runs again.
C6_Witness ==
    \E k \in ConfKeys :
        /\ Exists(k)
        /\ Conf(k).maxAttendees > 0
        /\ AttendeeCount(k) >= 1
        /\ \E u \in Users : tx[u].op = "registration" /\ tx[u].stale /\ tx[u].wsck = k

\* The response is that of a featured-speaker recompute (the sessions are
\* those the recompute read: every later step replaces the response).
FeaturedRun == resp.op = "set_featured_speaker"
FeaturedFound == FeaturedRun /\ resp.data # << EmptyString >>
CachedFeatured == memcache[MEMCACHE_FEATURED_SPEAKER_KEY]

\* Positions of the scan whose speaker was met at an earlier position.
Repeats(sp) == {i \in 1 .. Len(sp) : \E j \in 1 .. i - 1 : sp[j] = sp[i]}
FirstOf(S) == CHOOSE x \in S : \A y \in S : x <= y
LastOf(S) == CHOOSE x \in S : \A y \in S : x >= y

\* C7 (as stated): when some speaker appears more than once among the
\* sessions of the conference, the recompute selects the first speaker it
\* encounters a second time in its scan, and caches a message naming him.
C7_FirstRepeatedSpeaker ==
    FeaturedRun =>
        LET sp == ScanOrder(ProjectedSessions(resp.wsck))
        IN  Repeats(sp) # {} =>
                /\ CachedFeatured # None
                /\ CachedFeatured[1].tpl = FEATURED_TPL
                /\ CachedFeatured[1].args[1] = << sp[FirstOf(Repeats(sp))] >>

\* C7 (amended): when some speaker appears more than once among the sessions
\* of the conference, the recompute selects the speaker of the last position
\* of its scan whose speaker it had already encountered, and caches a message
\* naming him.
C7_LastRepeatedSpeaker ==
    FeaturedRun =>
        LET sp == ScanOrder(ProjectedSessions(resp.wsck))
        IN  Repeats(sp) # {} =>
                /\ CachedFeatured # None
                /\ CachedFeatured[1].tpl = FEATURED_TPL
                /\ CachedFeatured[1].args[1] = << sp[LastOf(Repeats(sp))] >>

\* C7 witness: a recompute whose scan meets two different speakers a second
\* time, the first of them before the last.
C7_Witness ==
    /\ FeaturedRun
    /\ LET sp == ScanOrder(ProjectedSessions(resp.wsck))
       IN  /\ Repeats(sp) # {}
           /\ sp[FirstOf(Repeats(sp))] # sp[LastOf(Repeats(sp))]

\* C8: when a recompute finds a featured speaker, the cached message lists
\* exactly the names of all sessions of that conference whose speakers
\* include him (each as often as there are such sessions of that name), and
\* he speaks in at least two sessions of the conference.
C8_FeaturedSessions ==
    FeaturedFound =>
        /\ CachedFeatured = Some(resp.data[1])
        /\ CachedFeatured[1].tpl = FEATURED_TPL
        /\ LET speaker == CachedFeatured[1].args[1][1]
               names == CachedFeatured[1].args[2]
               With == {i \in SessionsOf(resp.wsck) :
                           Contains(sessions[i].speakers, speaker)}
           IN  /\ Cardinality(With) >= 2
               /\ Len(names) = Cardinality(With)
               /\ \A i \in With :
                     Occurrences(names, sessions[i].name) =
                         Cardinality({k \in With : sessions[k].name = sessions[i].name})

\* C8 witness: a featured speaker is found while a session of the other
\* conference has the same speaker.
C8_Witness ==
    /\ FeaturedFound
    /\ \E i \in 1 .. Len(sessions) :
          /\ sessions[i].conf # resp.wsck
          /\ Contains(sessions[i].speakers, CachedFeatured[1].args[1][1])

\* Conferences whose seatsAvailable is more than 0 and at most 5.
FewSeatsLeft == {k \in ConfKeys : Exists(k) /\ 0 < Conf(k).seatsAvailable
                                            /\ Conf(k).seatsAvailable <= 5}
CachedAnnouncement == memcache[MEMCACHE_ANNOUNCEMENTS_KEY]

\* C9: after refreshAnnouncement the cached announcement names exactly the
\* conferences with 0 < seatsAvailable <= 5; when there is none the refresh
\* deletes the entry, and getAnnouncement then returns the empty string.
C9_AnnouncementNames ==
    /\ resp.op = "cacheAnnouncement" =>
          IF FewSeatsLeft = {}
          THEN CachedAnnouncement = None /\ resp.data = << EmptyString >>
          ELSE /\ CachedAnnouncement # None
               /\ CachedAnnouncement[1].tpl = ANNOUNCEMENT_TPL
               /\ LET names == CachedAnnouncement[1].args[1]
                  IN  /\ Len(names) = Cardinality(FewSeatsLeft)
                      /\ \A k \in FewSeatsLeft :
                            Occurrences(names, Conf(k).name) =
                                Cardinality({j \in FewSeatsLeft :
                                                Conf(j).name = Conf(k).name})
    /\ (resp.op = "getAnnouncement" /\ CachedAnnouncement = None) =>
          resp.data = << EmptyString >>

\* C9 witness: a refresh names a conference that came down to 5 seats while
\* another conference, with more than 5 seats, is left out.
C9_Witness ==
    /\ resp.op = "cacheAnnouncement"
    /\ \E k \in FewSeatsLeft : Conf(k).seatsAvailable = 5 /\ Conf(k).maxAttendees = 6
    /\ \E k \in ConfKeys : Exists(k) /\ Conf(k).seatsAvailable > 5

\* C10 (as stated): getConferenceSessions fails with NotFound whenever no
\* session exists under the given conference key (the key of a conference
\* that does not exist included); it returns a session list only when that
\* list is not empty.
C10_NoSessionsNotFound ==
    resp.op = "getConferenceSessions" =>
        /\ SessionsOf(resp.wsck) = {} => resp.result = "NotFound"
        /\ resp.result = "ok" => resp.data # << >>

\* The step ends the updateConference call of caller u.
UpdateCompletes(u) == tx[u].op = "update" /\ tx'[u].op = "none"

\* C11: an updateConference or createSession call whose caller is not the
\* organizerUserId stored on the conference fails with Forbidden and leaves
\* the conferences, the sessions and the task queue as they were; a step that
\* changes a stored conference or adds a session is made by its organizer.
C11_OnlyOrganizer ==
    [][ /\ \A u \in Users :
              UpdateCompletes(u) /\ tx[u].conf # None
                  /\ u # tx[u].conf[1].organizerUserId
              => /\ resp'.result = "Forbidden"
                 /\ UNCHANGED << conferences, sessions, taskqueue >>
        /\ \A u \in Users, wsck \in ConfKeys :
              CreateSession(u, wsck, OwnerSessionForm) /\ Exists(wsck)
                  /\ u # Conf(wsck).organizerUserId
              => /\ resp'.result = "Forbidden"
                 /\ UNCHANGED << conferences, sessions, taskqueue >>
        /\ \A k \in ConfKeys :
              Exists(k) /\ conferences'[k] # conferences[k]
              => resp'.caller = Conf(k).organizerUserId
        /\ sessions' # sessions
              => resp'.caller = Conf(resp'.wsck).organizerUserId ]_vars

\* An update was refused to u1, who created the conference and is no longer
\* its organizer, while a session is stored.
C11_Witness ==
    /\ resp.result = "Forbidden"
    /\ resp.op = "updateConference"
    /\ resp.caller = "u1"
    /\ Len(sessions) > 0

\* The date d lies in the date range of the conference, bounds included.
WithinConference(conf, d) ==
    /\ conf.startDate # None
    /\ conf.endDate # None
    /\ conf.startDate[1] <= d
    /\ d <= conf.endDate[1]

\* C12: createSession by the organizer with name, date and time present
\* succeeds exactly when the session date lies within the conference's
\* startDate and endDate; otherwise it fails with InvalidInput (400) and no
\* session is stored.  Fails for a conference stored without dates.
C12_WithinDatesOrInvalidInput ==
    [][ \A u \in Users, wsck \in ConfKeys, form \in SessionForms :
           CreateSession(u, wsck, form) /\ Exists(wsck)
               /\ u = Conf(wsck).organizerUserId
               /\ form.name # None /\ form.sess_date # None /\ form.sess_time # None
           => IF WithinConference(Conf(wsck), form.sess_date[1])
              THEN resp'.result = "ok" /\ Len(sessions') = Len(sessions) + 1
              ELSE resp'.result = "BadRequest" /\ sessions' = sessions ]_vars

\* C13: a createConference with a name stores a conference whose absent or
\* empty city, maxAttendees, seatsAvailable and topics have their defaults,
\* whose month is 0 without a start date and whose seatsAvailable equals a
\* positive maxAttendees; with an empty name it fails with InvalidInput and
\* stores and enqueues nothing.  Fails for a city given as the empty string.
C13_DefaultsStored ==
    [][ \A form \in DefaultForms :
           CreateConference("u1", form)
           => IF form.name \in {None, Some("")}
              THEN /\ resp'.result = "BadRequest"
                   /\ UNCHANGED << conferences, taskqueue >>
              ELSE /\ resp'.result = "ok"
                   /\ LET c == conferences'[NextConfKey][1] IN
                      /\ form.city \in {None, Some("")} => c.city = "Default City"
                      /\ form.topics = << >> => c.topics = << "Default", "Topic" >>
                      /\ form.maxAttendees = None => c.maxAttendees = 0
                      /\ form.startDate = None => c.month = 0
                      /\ c.maxAttendees > 0 => c.seatsAvailable = c.maxAttendees
                      /\ form.maxAttendees \in {None, Some(0)}
                            => c.seatsAvailable = 0 ]_vars

\* The filter is an inequality: its operator is not EQ.
NonEquality(f) == f.operator # "EQ"

\* Some non-equality filter is on another field than an earlier one.
SecondInequalityField(filters) ==
    \E i, j \in 1 .. Len(filters) :
        /\ i < j
        /\ NonEquality(filters[i])
        /\ NonEquality(filters[j])
        /\ filters[i].field # filters[j].field

\* The value a conference is sorted by under an inequality on field.
SortValue(k, field) ==
    IF field = "CITY" THEN Rank(Conf(k).city) ELSE Conf(k).month

\* The keys are in order of the field of the non-equality filters (if there
\* is one), then of name.
OrderedFor(keys, filters) ==
    \A i, j \in 1 .. Len(keys) :
        i < j =>
            IF \E n \in 1 .. Len(filters) : NonEquality(filters[n])
            THEN LET f == (CHOOSE n \in 1 .. Len(filters) : NonEquality(filters[n]))
                     a == SortValue(keys[i], filters[f].field)
                     b == SortValue(keys[j], filters[f].field)
                 IN  \/ a < b
                     \/ a = b /\ Rank(Conf(keys[i]).name) <= Rank(Conf(keys[j]).name)
            ELSE Rank(Conf(keys[i]).name) <= Rank(Conf(keys[j]).name)

\* C14: queryConferences with filters on known fields fails with InvalidInput
\* exactly when a non-equality filter is on a field different from that of an
\* earlier non-equality filter; the conferences it returns are ordered by the
\* field of the non-equality filters and then by name, or by name alone
\* when every filter is an equality.
C14_InequalityOneField ==
    [][ \A filters \in FilterLists :
           \/ /\ resp'.result = "BadRequest" <=> SecondInequalityField(filters)
              /\ resp'.result = "ok" => OrderedFor(resp'.data, filters)
           \/ \E n \in 1 .. Len(filters) : filters[n].field \notin DOMAIN FIELDS
           \/ ~QueryConferences(Anonymous, filters) ]_vars

\* A query returned conference 2 before conference 1 because its month is
\* smaller, although its name is greater.
C14_Witness ==
    /\ resp.op = "queryConferences"
    /\ resp.result = "ok"
    /\ resp.data = << 2, 1 >>
    /\ Conf(2).month < Conf(1).month
    /\ Rank(Conf(2).name) > Rank(Conf(1).name)

\* The stored wishlist of user u (empty without a Profile).
Wishlist(u) == IF profiles[u] = None THEN << >> ELSE profiles[u][1].session_wishlist

NoDuplicates(seq) == \A i, j \in 1 .. Len(seq) : seq[i] = seq[j] => i = j

\* C15: addSessionToWishlist fails with Conflict and leaves the wishlist as it
\* is when the key is already in it; otherwise it appends the key and returns
\* true; so no wishlist ever holds a key twice.
C15_AddOnce ==
    [][ /\ \A u \in WishCallers \ {Anonymous}, s_key \in WishKeys :
              SessionWishlist(u, s_key, TRUE)
              => IF Contains(Wishlist(u), s_key)
                 THEN resp'.result = "Conflict" /\ Wishlist(u)' = Wishlist(u)
                 ELSE resp'.result = "true"
                      /\ Wishlist(u)' = Append(Wishlist(u), s_key)
        /\ \A u \in Users : NoDuplicates(Wishlist(u))' ]_vars

\* An add was refused for a key already in a wishlist of two keys.
C15_Witness ==
    /\ resp.op = "addSessionToWishlist"
    /\ resp.result = "Conflict"
    /\ Len(Wishlist("u1")) = 2
    /\ Contains(Wishlist("u1"), resp.wsck)

\* C16: removeSessionFromWishlist returns false in every case; a key that was
\* in the wishlist is no longer in it and the other keys keep their order, a
\* key that was not in it leaves the wishlist as it was.
C16_RemoveReturnsFalse ==
    [][ \A u \in WishCallers \ {Anonymous}, s_key \in WishKeys :
           SessionWishlist(u, s_key, FALSE)
           => /\ resp'.result = "false"
              /\ Wishlist(u)' = SelectSeq(Wishlist(u), LAMBDA x : x # s_key) ]_vars

\* A remove returned false and left a wishlist that no longer holds the key,
\* after the key 1 had been the first of two.
C16_Witness ==
    /\ resp.op = "removeSessionFromWishlist"
    /\ resp.result = "false"
    /\ resp.wsck = 1
    /\ Wishlist("u1") = << 2 >>

\* The stored sessions of conference wsck that start before 19:00 and whose
\* type is not the string Workshop.
EarlyNonWorkshops(wsck) ==
    {i \in 1 .. Len(sessions) :
        /\ sessions[i].conf = wsck
        /\ sessions[i].sess_time < 1900
        /\ sessions[i].sess_type # Some("Workshop")}

C18_AnonymousRefused ==
    [][ resp'.caller = Anonymous
        => /\ resp'.result = "Unauthorized"
           /\ UNCHANGED << profiles, conferences, sessions, speakerEntities,
                           taskqueue >> ]_vars

\* C19: after any createConference and updateConference calls, the month of
\* every stored conference is the calendar month of its startDate, and 0
\* when it has no startDate.  Fails after an update whose form carries a month.
C19_MonthOfStartDate ==
    \A k \in ConfKeys :
        Exists(k) =>
            Conf(k).month = IF Conf(k).startDate = None THEN 0
                            ELSE MonthOf(Conf(k).startDate[1])

\* C20: after any createConference and updateConference calls, the
\* organizerUserId of every stored conference is the user id of the Profile
\* that is the parent of its key, and getConferencesCreated returns to a caller
\* exactly the conferences whose organizerUserId lets that caller update them.
\* Fails after an update whose form carries an organizerUserId.
C20_OrganizerIsParent ==
    /\ \A k \in ConfKeys : Exists(k) => Conf(k).organizerUserId = Conf(k).parent
    /\ resp.op = "getConferencesCreated" /\ resp.result = "ok"
       => {resp.data[n] : n \in 1 .. Len(resp.data)}
             = {k \in ConfKeys : Exists(k) /\ Conf(k).organizerUserId = resp.caller}

\* C23: in every state reached by registerForConference and
\* unregisterFromConference calls of any callers, overlapping in any way, no
\* profile's conferenceKeysToAttend holds a conference key twice.
C23_NoDuplicateAttendance ==
    \A u \in Users : NoDuplicates(Attending(u))

\* The second client of u1 is registering for a conference it read as not
\* attended, and meanwhile the first client's registration for the same
\* conference has committed.
C23_Witness ==
    /\ tx[SecondClient].op = "registration"
    /\ tx[SecondClient].reg
    /\ ~Contains(SnapAttending(SecondClient), tx[SecondClient].wsck)
    /\ Contains(Attending("u1"), tx[SecondClient].wsck)
    /\ resp.caller = "u1"
    /\ resp.result = "true"

\* The "recompute featured speaker" task for conference wsck.
RecomputeTask(wsck) ==
    [url |-> "/tasks/set_featured_speaker", email |-> "", websafeConferenceKey |-> wsck]

\* Number of tasks for wsck that are queued, or due from a createSession call
\* that has put its session.
TasksDue(wsck) ==
    Cardinality({n \in 1 .. Len(taskqueue) : taskqueue[n] = RecomputeTask(wsck)})
        + Cardinality({c \in Callers : pending.put[c] = Some(wsck)})

\* C21: a "recompute featured speaker" task is added only by a createSession
\* call that succeeds, one task per call, carrying the key of the session's
\* conference, and after the session is stored; a createSession that fails
\* adds no task and stores no session.  Stored sessions stay, so every task
\* queued has its session stored when it runs.
C21_TaskAfterPut ==
    [][ /\ ( /\ Len(taskqueue') > Len(taskqueue)
             /\ taskqueue'[Len(taskqueue')].url = "/tasks/set_featured_speaker" )
           => /\ resp'.op = "createSession"
              /\ resp'.result = "ok"
              /\ taskqueue' = Append(taskqueue, RecomputeTask(resp'.wsck))
              /\ sessions' = sessions
              /\ \E i \in 1 .. Len(sessions) : sessions[i].conf = resp'.wsck
        /\ \A c \in Callers :
              pending.put[c] # None /\ pending'.put[c] = None
              => /\ resp'.result = "ok"
                 /\ taskqueue' = Append(taskqueue, RecomputeTask(pending.put[c][1]))
        /\ resp'.op = "createSession" /\ resp'.result # "ok" /\ resp' # resp
              => taskqueue' = taskqueue /\ sessions' = sessions
        /\ Len(sessions) <= Len(sessions')
        /\ \A i \in 1 .. Len(sessions) : sessions'[i] = sessions[i]
        /\ \A wsck \in ConfKeys :
              TasksDue(wsck)' <= Cardinality(SessionsOf(wsck))' ]_vars

\* A createSession has returned and its task is queued, while the other client
\* of u1 has stored a session and not yet added its task.
C21_Witness ==
    /\ resp.op = "createSession"
    /\ resp.result = "ok"
    /\ \E n \in 1 .. Len(taskqueue) : taskqueue[n] = RecomputeTask(resp.wsck)
    /\ pending.put[SecondClient] # None
    /\ Len(sessions) >= 2

\* C22: the featured-speaker entry always reads as the message returned by the
\* run of _cacheFeaturedSpeaker that wrote it last (the empty string when that
\* run found no featured speaker and deleted the entry, or when no run has
\* written), whatever the order of the runs and of the other operations, and
\* that is what getFeaturedSpeaker returns.
C22_LastWriterWins ==
    /\ MemcacheGetOrEmpty(MEMCACHE_FEATURED_SPEAKER_KEY) = pending.returned
    /\ resp.op = "getFeaturedSpeaker" => resp.data = << pending.returned >>

\* getFeaturedSpeaker returned the empty string after every task has run,
\* although two stored sessions of the first conference share a speaker: the
\* run that wrote last had found no featured speaker.
C22_Witness ==
    /\ resp.op = "getFeaturedSpeaker"
    /\ resp.data = << EmptyString >>
    /\ taskqueue = << >>
    /\ pending.computed = << >>
    /\ \E i, j \in SessionsOf(1) : i # j /\ sessions[i].speakers = sessions[j].speakers

====
